---- MODULE Spec2Model ----
(***************************************************************************)
(* Model of the poll contract (src/src/contract.rs, state.rs, msg.rs).     *)
(*                                                                         *)
(* The contract keeps three storage regions (CONFIG, POLL, BALLOT).  Each  *)
(* entry point runs against deps.storage; the host keeps the writes of a   *)
(* call only when the call returns Ok.  The variables POLL, BALLOT, CONFIG *)
(* and VERSION hold the committed storage; `tx` holds deps.storage as the  *)
(* handler left it, `pre` the committed storage before the call and `last` *)
(* the call and its result.                                                *)
(*                                                                         *)
(* u64 counts: TLC's integers are 32 bits wide, so a count c is held by    *)
(* its representative in -2^63 .. 2^63-1 congruent to c modulo 2^64: a     *)
(* representative r >= 0 is the count r, a representative r < 0 is the     *)
(* count 2^64 + r (-1 is u64::MAX).  Wrapping +1 and -1 are then r+1 and   *)
(* r-1, the subtraction overflows exactly at r = 0 and the addition        *)
(* exactly at r = -1.                                                      *)
(*                                                                         *)
(* Whether `-= 1` on 0 and `+= 1` on u64::MAX panic or wrap is decided by  *)
(* the overflow-checks setting of the build profile, which is not part of  *)
(* the sources: `overflow_checks` is None until a call overflows and is    *)
(* then fixed, to either setting, for the rest of the behaviour.           *)
(***************************************************************************)
EXTENDS Integers, Sequences, FiniteSets, TLC

VARIABLES CONFIG, POLL, BALLOT, VERSION, overflow_checks, last, pre, tx, calls

vars == <<CONFIG, POLL, BALLOT, VERSION, overflow_checks, last, pre, tx, calls>>

(* ------------------------------ bounds -------------------------------- *)

\* Number of CreatePoll calls explored after instantiation.
MaxCreates == 2

\* Number of Vote calls explored after instantiation.
MaxVotes == 3

(* --------------------------- input universes -------------------------- *)

Addrs == {"addr1", "addr2"}

\* A string the host's address validation rejects.
BadAddr == ""

AddrInputs == Addrs \cup {BadAddr}

\* Poll ids are arbitrary strings; one of them is also a valid address.
PollIds == {"1", "addr1"}

Labels == {"Yes", "No"}

Questions == {"Should We Have a Meeting Today"}

(* ------------------------------ Option<T> ----------------------------- *)

None == <<>>

Some(x) == <<x>>

IsSome(o) == o # None

unwrap(o) == o[1]

(* ------------------------- cw_storage_plus maps ----------------------- *)

EmptyMap == [k \in {} |-> k]

may_load(map, key) == IF key \in DOMAIN map THEN Some(map[key]) ELSE None

\* faulty variant: the write replaces the whole map (an Item, not a Map)
save_replacing(map, key, value) == [k \in {key} |-> value]

save(map, key, value) ==
    [k \in (DOMAIN map) \cup {key} |-> IF k = key THEN value ELSE map[k]]

(* --------------------------------- u64 -------------------------------- *)

\* the representative of u64::MAX
U64Max == 0 - 1

\* `x -= 1` overflows
SubOverflows(x) == x = 0

\* `x += 1` overflows
AddOverflows(x) == x = U64Max

(* ------------------------------- state.rs ----------------------------- *)

Config(admin) == [admin |-> admin]

Poll(admin, question, options) ==
    [admin |-> admin, question |-> question, options |-> options]

Ballot(option) == [option |-> option]

(* --------------------------------- host ------------------------------- *)

\* deps.api.addr_validate: the host accepts exactly its well-formed addresses
addr_validate(s) == IF s \in Addrs THEN Some(s) ELSE None

Storage(config, poll, ballot, version) ==
    [CONFIG |-> config, POLL |-> poll, BALLOT |-> ballot, VERSION |-> version]

Committed == Storage(CONFIG, POLL, BALLOT, VERSION)

Ok(val) == [kind |-> "Ok", val |-> val]

Err(e) == [kind |-> "Err", val |-> e]

\* a panic (unwrap of None, arithmetic overflow with overflow checks on)
Fault == [kind |-> "Fault", val |-> None]

\* what an entry point leaves behind: its result, deps.storage as written so
\* far, and whether an arithmetic overflow happened on the way
Ret(result, storage, overflowed) ==
    [result |-> result, storage |-> storage, overflowed |-> overflowed]

\* faulty variant: the host keeps the writes of a failed call
HostCommitAlways(before, ret) == ret.storage

\* The host commits the writes of a call that returned Ok and drops the
\* writes of a call that returned an error or aborted.
HostCommit(before, ret) ==
    IF ret.result.kind = "Ok" THEN ret.storage ELSE before

(* ------------------------------ contract.rs --------------------------- *)

CONTRACT_NAME == "crates.io:poll"

\* faulty variant: the admin given in the message is ignored
instantiate_sender_only(s, sender, msg) ==
    LET s1 == [s EXCEPT !.VERSION = Some(CONTRACT_NAME)]
        validated_admin == addr_validate(sender)
    IN  IF ~IsSome(validated_admin)
        THEN Ret(Err("Std"), s1, FALSE)
        ELSE Ret(Ok(<< <<"action", "instantiate">>,
                       <<sender, unwrap(validated_admin)>> >>),
                 [s1 EXCEPT !.CONFIG = Some(Config(unwrap(validated_admin)))],
                 FALSE)

instantiate(s, sender, msg) ==
    LET s1 == [s EXCEPT !.VERSION = Some(CONTRACT_NAME)]
        admin == IF IsSome(msg.admin) THEN unwrap(msg.admin) ELSE sender
        validated_admin == addr_validate(admin)
    IN  IF ~IsSome(validated_admin)
        THEN Ret(Err("Std"), s1, FALSE)
        ELSE Ret(Ok(<< <<"action", "instantiate">>,
                       <<admin, unwrap(validated_admin)>> >>),
                 [s1 EXCEPT !.CONFIG = Some(Config(unwrap(validated_admin)))],
                 FALSE)

MAX_OPTIONS == 10

\* faulty variant: the options are zeroed in reverse order
zero_options_reversed(options) ==
    [i \in 1..Len(options) |-> <<options[Len(options) + 1 - i], 0>>]

\* for option in options { opts.push((option, 0)) }
zero_options(options) == [i \in 1..Len(options) |-> <<options[i], 0>>]

\* faulty variant: the length check is off by one
execute_create_poll_off_by_one(s, sender, poll_id, question, options) ==
    IF Len(options) > MAX_OPTIONS + 1
    THEN Ret(Err("TooManyPollOptions"), s, FALSE)
    ELSE Ret(Ok(<< <<"action", "create poll">> >>),
             [s EXCEPT !.POLL = save(s.POLL, poll_id,
                                     Poll(sender, question, [i \in 1..Len(options) |-> <<options[i], 0>>]))],
             FALSE)

\* faulty variant: only the admin of a stored poll may replace it
execute_create_poll_admin_only(s, sender, poll_id, question, options) ==
    IF Len(options) > MAX_OPTIONS
    THEN Ret(Err("TooManyPollOptions"), s, FALSE)
    ELSE IF poll_id \in DOMAIN s.POLL /\ s.POLL[poll_id].admin # sender
    THEN Ret(Err("Unauthorized"), s, FALSE)
    ELSE Ret(Ok(<< <<"action", "create poll">> >>),
             [s EXCEPT !.POLL = save(s.POLL, poll_id,
                                     Poll(sender, question, [i \in 1..Len(options) |-> <<options[i], 0>>]))],
             FALSE)

\* faulty variant: creating a poll removes the ballots cast under its poll_id
execute_create_poll_clearing_ballots(s, sender, poll_id, question, options) ==
    IF Len(options) > MAX_OPTIONS
    THEN Ret(Err("TooManyPollOptions"), s, FALSE)
    ELSE LET poll == Poll(sender, question, zero_options(options))
             kept == {k \in DOMAIN s.BALLOT : k[2] # poll_id}
         IN  Ret(Ok(<< <<"action", "create poll">> >>),
                 [s EXCEPT !.POLL = save(s.POLL, poll_id, poll),
                           !.BALLOT = [k \in kept |-> s.BALLOT[k]]],
                 FALSE)

execute_create_poll(s, sender, poll_id, question, options) ==
    IF Len(options) > MAX_OPTIONS
    THEN Ret(Err("TooManyPollOptions"), s, FALSE)
    ELSE LET poll == Poll(sender, question, zero_options(options))
         IN  Ret(Ok(<< <<"action", "create poll">> >>),
                 [s EXCEPT !.POLL = save(s.POLL, poll_id, poll)],
                 FALSE)

\* faulty variant: the last option with the label is found (rposition)
position_last(options, label) ==
    LET hits == {i \in 1..Len(options) : options[i][1] = label}
    IN  IF hits = {} THEN None
        ELSE Some(CHOOSE i \in hits : \A j \in hits : i >= j)

\* options.iter().position(|option| option.0 == label)
position(options, label) ==
    LET hits == {i \in 1..Len(options) : options[i][1] = label}
    IN  IF hits = {} THEN None
        ELSE Some(CHOOSE i \in hits : \A j \in hits : i <= j)

\* poll.options[i].1 = c
SetCount(poll, i, c) ==
    [poll EXCEPT !.options = [@ EXCEPT ![i] = <<@[1], c>>]]

\* poll.options[i].1
count_at(poll, i) == poll.options[i][2]

\* faulty variant: a vote for a label the poll does not have is rejected
\* with a returned error
vote_in_poll_rejecting(s, sender, poll_id, vote, poll0, checks) ==
    LET key == <<sender, poll_id>>
        ballot == may_load(s.BALLOT, key)
        old_pos == IF IsSome(ballot)
                   THEN position(poll0.options, unwrap(ballot).option)
                   ELSE None
    IN
    IF ~IsSome(position(poll0.options, vote))
    THEN Ret(Err("Option not found"), s, FALSE)
    ELSE
    IF IsSome(ballot) /\ ~IsSome(old_pos)
    THEN Ret(Fault, s, FALSE)
    ELSE
    LET sub_overflow == IsSome(ballot)
                        /\ SubOverflows(count_at(poll0, unwrap(old_pos)))
    IN
    IF sub_overflow /\ checks
    THEN Ret(Fault, s, TRUE)
    ELSE
    LET poll1 == IF IsSome(ballot)
                 THEN SetCount(poll0, unwrap(old_pos),
                               count_at(poll0, unwrap(old_pos)) - 1)
                 ELSE poll0
        s1 == [s EXCEPT !.BALLOT = save(s.BALLOT, key, Ballot(vote))]
        pos == position(poll1.options, vote)
        add_overflow == AddOverflows(count_at(poll1, unwrap(pos)))
    IN
    IF add_overflow /\ checks
    THEN Ret(Fault, s1, TRUE)
    ELSE
    LET poll2 == SetCount(poll1, unwrap(pos), count_at(poll1, unwrap(pos)) + 1)
    IN  Ret(Ok(<< <<"action", "vote in poll">> >>),
            [s1 EXCEPT !.POLL = save(s1.POLL, poll_id, poll2)],
            sub_overflow \/ add_overflow)

\* the body of execute_vote once the poll is loaded (the `if let Some` arm)
vote_in_poll(s, sender, poll_id, vote, poll0, checks) ==
    LET key == <<sender, poll_id>>
        ballot == may_load(s.BALLOT, key)
        old_pos == IF IsSome(ballot)
                   THEN position(poll0.options, unwrap(ballot).option)
                   ELSE None
    IN
    IF IsSome(ballot) /\ ~IsSome(old_pos)
    THEN Ret(Fault, s, FALSE)
    ELSE
    LET sub_overflow == IsSome(ballot)
                        /\ SubOverflows(count_at(poll0, unwrap(old_pos)))
    IN
    IF sub_overflow /\ checks
    THEN Ret(Fault, s, TRUE)
    ELSE
    LET poll1 == IF IsSome(ballot)
                 THEN SetCount(poll0, unwrap(old_pos),
                               count_at(poll0, unwrap(old_pos)) - 1)
                 ELSE poll0
        s1 == [s EXCEPT !.BALLOT = save(s.BALLOT, key, Ballot(vote))]
        pos == position(poll1.options, vote)
    IN
    IF ~IsSome(pos)
    THEN Ret(Fault, s1, sub_overflow)
    ELSE
    LET add_overflow == AddOverflows(count_at(poll1, unwrap(pos)))
    IN
    IF add_overflow /\ checks
    THEN Ret(Fault, s1, TRUE)
    ELSE
    LET poll2 == SetCount(poll1, unwrap(pos), count_at(poll1, unwrap(pos)) + 1)
    IN  Ret(Ok(<< <<"action", "vote in poll">> >>),
            [s1 EXCEPT !.POLL = save(s1.POLL, poll_id, poll2)],
            sub_overflow \/ add_overflow)

\* faulty variant: a vote on a missing poll is recorded and reported as a success
execute_vote_unchecked(s, sender, poll_id, vote, checks) ==
    LET poll == may_load(s.POLL, poll_id)
    IN  IF IsSome(poll)
        THEN vote_in_poll(s, sender, poll_id, vote, unwrap(poll), checks)
        ELSE Ret(Ok(<< <<"action", "vote in poll">> >>),
                 [s EXCEPT !.BALLOT = save(s.BALLOT, <<sender, poll_id>>, Ballot(vote))],
                 FALSE)

execute_vote(s, sender, poll_id, vote, checks) ==
    LET poll == may_load(s.POLL, poll_id)
    IN  IF IsSome(poll)
        THEN vote_in_poll(s, sender, poll_id, vote, unwrap(poll), checks)
        ELSE Ret(Err("Poll not found"), s, FALSE)

execute(s, sender, msg, checks) ==
    IF msg.type = "CreatePoll"
    THEN execute_create_poll(s, sender, msg.poll_id, msg.question, msg.options)
    ELSE execute_vote(s, sender, msg.poll_id, msg.vote, checks)

\* the poll ids in ascending byte order of the storage keys ("1" < "a")
KeysAscending == <<"1", "addr1">>

\* faulty variant: the values are listed in descending order of the keys
range_values_descending(map) ==
    LET keys == SelectSeq(KeysAscending, LAMBDA k : k \in DOMAIN map)
    IN  [i \in 1..Len(keys) |-> map[keys[Len(keys) + 1 - i]]]

\* POLL.range(storage, None, None, Order::Ascending), values only
range_values(map) ==
    LET keys == SelectSeq(KeysAscending, LAMBDA k : k \in DOMAIN map)
    IN  [i \in 1..Len(keys) |-> map[keys[i]]]

query_all_poll(s) == Ok([polls |-> range_values(s.POLL)])

query_poll(s, poll_id) == Ok([poll |-> may_load(s.POLL, poll_id)])

query_vote(s, address, poll_id) ==
    LET validated_address == addr_validate(address)
    IN  IF ~IsSome(validated_address)
        THEN Err("Std")
        ELSE Ok([vote |-> may_load(s.BALLOT, <<unwrap(validated_address), poll_id>>)])

query(s, msg) ==
    IF msg.type = "AllPoll" THEN query_all_poll(s)
    ELSE IF msg.type = "Poll" THEN query_poll(s, msg.poll_id)
    ELSE query_vote(s, msg.poll_id, msg.address)

(* ------------------------------- messages ----------------------------- *)

\* an option list of n entries, all with the same label
LongList(n) == [i \in 1..n |-> "Yes"]

\* the empty list, the list of the tests, and lists of exactly and of one more
\* than the allowed number of options (with duplicate labels)
OptionLists ==
    {<<>>, <<"Yes", "No">>, LongList(MAX_OPTIONS), LongList(MAX_OPTIONS + 1)}

InstantiateMsg(admin) == [type |-> "Instantiate", admin |-> admin]

CreatePollMsg(poll_id, question, options) ==
    [type |-> "CreatePoll", poll_id |-> poll_id, question |-> question,
     options |-> options]

VoteMsg(poll_id, vote) == [type |-> "Vote", poll_id |-> poll_id, vote |-> vote]

AllPollQuery == [type |-> "AllPoll"]

PollQuery(poll_id) == [type |-> "Poll", poll_id |-> poll_id]

VoteQuery(poll_id, address) ==
    [type |-> "VoteQuery", poll_id |-> poll_id, address |-> address]

CreatePollMsgs ==
    {CreatePollMsg(p, q, o) : p \in PollIds, q \in Questions, o \in OptionLists}

VoteMsgs == {VoteMsg(p, v) : p \in PollIds, v \in Labels}

QueryMsgs ==
    {AllPollQuery} \cup {PollQuery(p) : p \in PollIds}
        \cup {VoteQuery(p, a) : p \in PollIds, a \in Addrs}

(* ------------------------------ the machine --------------------------- *)

Call(sender, msg, result) == [sender |-> sender, msg |-> msg, result |-> result]

Init ==
    /\ CONFIG = None
    /\ POLL = EmptyMap
    /\ BALLOT = EmptyMap
    /\ VERSION = None
    /\ overflow_checks = None
    /\ last = Call(BadAddr, [type |-> "None"], Ok(None))
    /\ pre = Storage(None, EmptyMap, EmptyMap, None)
    /\ tx = Storage(None, EmptyMap, EmptyMap, None)
    /\ calls = [CreatePoll |-> 0, Vote |-> 0]

\* the host runs one entry point to completion and commits or drops its writes
Run(sender, msg, ret) ==
    LET after == HostCommit(Committed, ret)
    IN  /\ CONFIG' = after.CONFIG
        /\ POLL' = after.POLL
        /\ BALLOT' = after.BALLOT
        /\ VERSION' = after.VERSION
        /\ last' = Call(sender, msg, ret.result)
        /\ pre' = Committed
        /\ tx' = ret.storage

\* the overflow-checks settings the behaviour so far is consistent with, for
\* a call that may decide it
Profiles(sender, msg) ==
    IF IsSome(overflow_checks) THEN {unwrap(overflow_checks)}
    ELSE IF execute(Committed, sender, msg, TRUE).overflowed THEN BOOLEAN
    ELSE {TRUE}

Instantiate ==
    /\ CONFIG = None
    /\ \E sender \in Addrs, admin \in {None} \cup {Some(a) : a \in AddrInputs} :
          Run(sender, InstantiateMsg(admin),
              instantiate(Committed, sender, InstantiateMsg(admin)))
    /\ UNCHANGED <<overflow_checks, calls>>

ExecuteCreatePoll ==
    /\ CONFIG # None
    /\ calls.CreatePoll < MaxCreates
    /\ \E sender \in Addrs, msg \in CreatePollMsgs :
          Run(sender, msg, execute(Committed, sender, msg, TRUE))
    /\ calls' = [calls EXCEPT !.CreatePoll = @ + 1]
    /\ UNCHANGED overflow_checks

ExecuteVote ==
    /\ CONFIG # None
    /\ calls.Vote < MaxVotes
    /\ \E sender \in Addrs, msg \in VoteMsgs :
          \E checks \in Profiles(sender, msg) :
             LET ret == execute(Committed, sender, msg, checks)
             IN  /\ Run(sender, msg, ret)
                 /\ overflow_checks' = IF ret.overflowed THEN Some(checks)
                                       ELSE overflow_checks
    /\ calls' = [calls EXCEPT !.Vote = @ + 1]

\* A query gets the storage read-only (Deps): it answers its caller and
\* leaves every variable as it was.  Its answer in a state is query(Committed, msg).
Query ==
    /\ CONFIG # None
    /\ \A msg \in QueryMsgs : query(Committed, msg).kind \in {"Ok", "Err"}
    /\ UNCHANGED vars

Next == Instantiate \/ ExecuteCreatePoll \/ ExecuteVote \/ Query

Spec == Init /\ [][Next]_vars

(* ----------------------- reading the last call ----------------------- *)

LastIs(type) == last.msg.type = type

\* the ballot key of the last call (a Vote)
LastKey == <<last.sender, last.msg.poll_id>>

\* the poll the last call found under its poll_id
PrePoll == pre.POLL[last.msg.poll_id]

\* An exact count, for counts given by their representatives: the number of
\* representatives below 0 (each stands for 2^64 more than it says) and the
\* sum of the representatives.
RECURSIVE SumFrom(_, _)
SumFrom(options, i) ==
    IF i > Len(options) THEN 0 ELSE options[i][2] + SumFrom(options, i + 1)

Total(options) ==
    <<Cardinality({i \in 1..Len(options) : options[i][2] < 0}), SumFrom(options, 1)>>

\* b is exactly a + 1 as u64 values (no wrap-around in between)
OneMore(a, b) == b = a + 1 /\ a # U64Max

\* the first index of `label` in `options`, 0 when there is none
FirstIndex(options, label) ==
    IF \E i \in 1..Len(options) : options[i][1] = label
    THEN CHOOSE i \in 1..Len(options) :
            /\ options[i][1] = label
            /\ \A j \in 1..(i - 1) : options[j][1] # label
    ELSE 0

\* the query `msg`, asked in this state, is answered with `response`
Answers(msg, response) ==
    LET r == query(Committed, msg)
    IN  r.kind = "Ok" /\ r.val = response

(* -------------------------------- claims ------------------------------ *)

\* C1: for every stored poll the sum of vote_count over its options equals
\* the number of stored ballots whose key has that poll_id.
VoteCountIntegrity ==
    \A p \in DOMAIN POLL :
        Total(POLL[p].options)
            = <<0, Cardinality({k \in DOMAIN BALLOT : k[2] = p})>>

\* C2: a Vote by an identity that already has a ballot on an existing poll,
\* for a different label of that poll, succeeds, takes exactly 1 from the
\* count of the option the previous ballot names, adds exactly 1 to the
\* count of the new option, and leaves the total of the counts unchanged.
RevoteDifferentMovesOneVote ==
    (/\ LastIs("Vote")
     /\ last.msg.poll_id \in DOMAIN pre.POLL
     /\ LastKey \in DOMAIN pre.BALLOT
     /\ pre.BALLOT[LastKey].option # last.msg.vote
     /\ FirstIndex(PrePoll.options, last.msg.vote) # 0)
    => LET before == PrePoll.options
           after == POLL[last.msg.poll_id].options
           old == FirstIndex(before, pre.BALLOT[LastKey].option)
           new == FirstIndex(before, last.msg.vote)
       IN  /\ last.result.kind = "Ok"
           /\ old # 0
           /\ OneMore(after[old][2], before[old][2])
           /\ OneMore(before[new][2], after[new][2])
           /\ Total(after) = Total(before)

\* C3: a Vote by an identity that already has a ballot on an existing poll,
\* for the label of that ballot, succeeds (tagged "vote in poll") and leaves
\* every option count of the poll as it was.
RevoteSameKeepsCounts ==
    (/\ LastIs("Vote")
     /\ last.msg.poll_id \in DOMAIN pre.POLL
     /\ LastKey \in DOMAIN pre.BALLOT
     /\ pre.BALLOT[LastKey].option = last.msg.vote)
    => /\ last.result = Ok(<< <<"action", "vote in poll">> >>)
       /\ POLL[last.msg.poll_id].options = PrePoll.options

\* C4: a Vote by an identity with no ballot for (identity, poll_id), on an
\* existing poll and for a label of that poll, succeeds, creates the ballot
\* with that label, raises the chosen option's count by exactly 1, leaves
\* every other count unchanged, and raises the total by exactly 1.
FirstVoteAddsOneVote ==
    (/\ LastIs("Vote")
     /\ last.msg.poll_id \in DOMAIN pre.POLL
     /\ LastKey \notin DOMAIN pre.BALLOT
     /\ FirstIndex(PrePoll.options, last.msg.vote) # 0)
    => LET before == PrePoll.options
           after == POLL[last.msg.poll_id].options
           new == FirstIndex(before, last.msg.vote)
       IN  /\ last.result.kind = "Ok"
           /\ LastKey \in DOMAIN BALLOT
           /\ BALLOT[LastKey] = Ballot(last.msg.vote)
           /\ Len(after) = Len(before)
           /\ OneMore(before[new][2], after[new][2])
           /\ \A i \in 1..Len(before) : i # new => after[i] = before[i]
           /\ Total(after)[1] = Total(before)[1]
           /\ Total(after)[2] = Total(before)[2] + 1

\* C5: the Vote query {poll_id: p, address: v} returns the ballot stored
\* under the key (v, p), or None when there is none; after a successful
\* Vote{poll_id: p, vote: o} by v it returns a ballot with option o.
VoteQueryReturnsBallot ==
    (LastIs("Vote") /\ last.result.kind = "Ok")
    => Answers(VoteQuery(last.msg.poll_id, last.sender),
               [vote |-> Some(Ballot(last.msg.vote))])

\* C6: CreatePoll with more than 10 options fails with the too-many-options
\* error and writes nothing: no poll appears under poll_id, and a poll that
\* was there is left exactly as it was.
TooManyOptionsRejected ==
    (LastIs("CreatePoll") /\ Len(last.msg.options) > MAX_OPTIONS)
    => /\ last.result = Err("TooManyPollOptions")
       /\ tx = pre
       /\ Committed = pre
       /\ may_load(POLL, last.msg.poll_id) = may_load(pre.POLL, last.msg.poll_id)

TooManyOptionsRejectedWitness ==
    /\ LastIs("CreatePoll")
    /\ Len(last.msg.options) > MAX_OPTIONS
    /\ last.result.kind = "Err"
    /\ last.msg.poll_id \in DOMAIN POLL
    /\ POLL[last.msg.poll_id] = PrePoll

\* C7: CreatePoll with at most 10 options (the empty list and duplicate
\* labels included) succeeds, and the poll stored under poll_id has the
\* caller as admin, the given question, and one (label, 0) entry per input
\* label, in input order, duplicates kept.
CreatePollStoresZeroedOptions ==
    (LastIs("CreatePoll") /\ Len(last.msg.options) <= MAX_OPTIONS)
    => /\ last.result = Ok(<< <<"action", "create poll">> >>)
       /\ last.msg.poll_id \in DOMAIN POLL
       /\ LET poll == POLL[last.msg.poll_id]
          IN  /\ poll.admin = last.sender
              /\ poll.question = last.msg.question
              /\ Len(poll.options) = Len(last.msg.options)
              /\ \A i \in 1..Len(last.msg.options) :
                    poll.options[i] = <<last.msg.options[i], 0>>

CreatePollStoresZeroedOptionsWitness ==
    /\ LastIs("CreatePoll")
    /\ Len(last.msg.options) = MAX_OPTIONS
    /\ last.msg.options[1] = last.msg.options[2]
    /\ last.result.kind = "Ok"
    /\ Len(POLL[last.msg.poll_id].options) = MAX_OPTIONS

\* C8: a Vote whose poll_id has no stored poll returns the poll-not-found
\* error (an error value, not a fault, not a success), writes nothing, and
\* leaves no ballot for (caller, poll_id).
VoteOnMissingPollRejected ==
    (LastIs("Vote") /\ last.msg.poll_id \notin DOMAIN pre.POLL)
    => /\ last.result = Err("Poll not found")
       /\ tx = pre
       /\ POLL = pre.POLL
       /\ BALLOT = pre.BALLOT
       /\ LastKey \notin DOMAIN BALLOT

VoteOnMissingPollRejectedWitness ==
    /\ LastIs("Vote")
    /\ last.msg.poll_id \notin DOMAIN pre.POLL
    /\ last.result.kind = "Err"
    /\ DOMAIN POLL # {}

\* C9: a Vote or CreatePoll that does not succeed (error or fault at any
\* step) leaves the committed poll store and ballot store as they were
\* before the call, also when the handler had already written the ballot.
FailedCallCommitsNothing ==
    ((LastIs("Vote") \/ LastIs("CreatePoll")) /\ last.result.kind # "Ok")
    => /\ POLL = pre.POLL
       /\ BALLOT = pre.BALLOT

FailedCallCommitsNothingWitness ==
    /\ LastIs("Vote")
    /\ last.result.kind = "Fault"
    /\ last.msg.poll_id \in DOMAIN pre.POLL
    /\ FirstIndex(PrePoll.options, last.msg.vote) = 0
    /\ tx.BALLOT # pre.BALLOT
    /\ BALLOT = pre.BALLOT

\* C10: CreatePoll with at most 10 options on a poll_id that already holds
\* a poll succeeds for every caller, admin of the stored poll or not, and
\* replaces it: the stored poll then has the new caller as admin, the new
\* option labels, and counts that are all 0.
CreatePollOverwrites ==
    (/\ LastIs("CreatePoll")
     /\ Len(last.msg.options) <= MAX_OPTIONS
     /\ last.msg.poll_id \in DOMAIN pre.POLL)
    => /\ last.result.kind = "Ok"
       /\ POLL[last.msg.poll_id].admin = last.sender
       /\ Len(POLL[last.msg.poll_id].options) = Len(last.msg.options)
       /\ \A i \in 1..Len(POLL[last.msg.poll_id].options) :
             /\ POLL[last.msg.poll_id].options[i][1] = last.msg.options[i]
             /\ POLL[last.msg.poll_id].options[i][2] = 0

CreatePollOverwritesWitness ==
    /\ LastIs("CreatePoll")
    /\ last.msg.poll_id \in DOMAIN pre.POLL
    /\ PrePoll.admin # last.sender
    /\ \E i \in 1..Len(PrePoll.options) : PrePoll.options[i][2] > 0
    /\ PrePoll.options # POLL[last.msg.poll_id].options
    /\ last.result.kind = "Ok"
    /\ POLL[last.msg.poll_id].admin = last.sender

\* C11: a successful Instantiate stores as Config.admin the admin given in
\* the message, or the caller when none is given, and once Config is stored
\* no step of the contract (CreatePoll, Vote or a query, by any caller)
\* changes it.
AdminFixedAtInstantiate ==
    /\ [](LastIs("Instantiate") /\ last.result.kind = "Ok"
          => CONFIG = Some(Config(IF IsSome(last.msg.admin)
                                  THEN unwrap(last.msg.admin)
                                  ELSE last.sender)))
    /\ [][CONFIG # None => CONFIG' = CONFIG]_vars

AdminFixedAtInstantiateWitness ==
    /\ LastIs("Vote")
    /\ last.result.kind = "Ok"
    /\ calls.CreatePoll > 0
    /\ CONFIG = pre.CONFIG
    /\ IsSome(CONFIG)
    /\ unwrap(CONFIG).admin # last.sender
    /\ unwrap(CONFIG).admin # POLL[last.msg.poll_id].admin

\* byte order of the poll ids as storage keys
KeyLess(a, b) == a = "1" /\ b = "addr1"

\* C12: in every reachable state AllPoll answers with exactly the stored
\* polls: one entry per stored poll_id, none missing and none repeated, in
\* ascending order of poll_id, each entry the poll currently stored under
\* its id (an overwritten id appears once, with the replacing poll).
AllPollListsStore ==
    LET r == query(Committed, AllPollQuery)
    IN  /\ r.kind = "Ok"
        /\ Len(r.val.polls) = Cardinality(DOMAIN POLL)
        /\ \E ids \in [1..Len(r.val.polls) -> PollIds] :
              /\ {ids[i] : i \in DOMAIN ids} = DOMAIN POLL
              /\ \A i, j \in DOMAIN ids : i < j => KeyLess(ids[i], ids[j])
              /\ \A i \in DOMAIN ids : r.val.polls[i] = POLL[ids[i]]

AllPollListsStoreWitness ==
    /\ DOMAIN POLL = PollIds
    /\ POLL["1"] # POLL["addr1"]
    /\ \E i \in 1..Len(POLL["addr1"].options) : POLL["addr1"].options[i][2] > 0
    /\ Answers(AllPollQuery, [polls |-> <<POLL["1"], POLL["addr1"]>>])

\* C13: a Vote on a stored poll for a label that is not in the poll's
\* option list neither returns an error nor succeeds: it ends in the fault
\* of the unchecked lookup, whether the caller had a ballot on that poll
\* (a re-vote) or not (a first vote).
VoteForAbsentLabelFaults ==
    (/\ LastIs("Vote")
     /\ last.msg.poll_id \in DOMAIN pre.POLL
     /\ FirstIndex(PrePoll.options, last.msg.vote) = 0)
    => last.result.kind = "Fault"

\* the re-vote case: the caller's ballot names a label the poll has
VoteForAbsentLabelFaultsWitness ==
    /\ LastIs("Vote")
    /\ last.msg.poll_id \in DOMAIN pre.POLL
    /\ PrePoll.options # <<>>
    /\ FirstIndex(PrePoll.options, last.msg.vote) = 0
    /\ LastKey \in DOMAIN pre.BALLOT
    /\ FirstIndex(PrePoll.options, pre.BALLOT[LastKey].option) # 0
    /\ last.result.kind = "Fault"
    /\ BALLOT = pre.BALLOT

\* the positions of options whose label already occurs at an earlier position
LaterDuplicates(options) ==
    {i \in 1..Len(options) : \E j \in 1..(i - 1) : options[j][1] = options[i][1]}

\* C14: when a poll's option list holds one label at several positions, a
\* Vote for that label (its increment, and its decrement of a previous
\* ballot with that label) changes only the count at the first of these
\* positions; the counts at the later positions are 0 in every reachable
\* state.
DuplicateLabelsCountAtFirst ==
    /\ \A p \in DOMAIN POLL :
          \A i \in LaterDuplicates(POLL[p].options) : POLL[p].options[i][2] = 0
    /\ (/\ LastIs("Vote")
        /\ last.result.kind = "Ok"
        /\ LaterDuplicates(PrePoll.options) # {})
       => \A i \in 1..Len(PrePoll.options) :
             POLL[last.msg.poll_id].options[i] # PrePoll.options[i]
             => \/ i = FirstIndex(PrePoll.options, last.msg.vote)
                \/ /\ LastKey \in DOMAIN pre.BALLOT
                   /\ i = FirstIndex(PrePoll.options, pre.BALLOT[LastKey].option)

DuplicateLabelsCountAtFirstWitness ==
    /\ LastIs("Vote")
    /\ last.result.kind = "Ok"
    /\ LaterDuplicates(PrePoll.options) # {}
    /\ LastKey \in DOMAIN pre.BALLOT
    /\ pre.BALLOT[LastKey].option = last.msg.vote
    /\ PrePoll.options[1][2] = 2
    /\ POLL[last.msg.poll_id].options[1][2] = 2

\* C15: ballots are never removed. A ballot stored for a (voter, poll_id)
\* pair is stored in every later state, whatever CreatePoll and Vote calls
\* follow, a CreatePoll that overwrites that poll_id included; the pair
\* holds one ballot, and its option is the label of that voter's most
\* recent successful Vote on that poll_id: a successful Vote stores its
\* label, and nothing else changes a stored ballot.
BallotsNeverRemoved ==
    /\ [](LastIs("Vote") /\ last.result.kind = "Ok"
          => may_load(BALLOT, LastKey) = Some(Ballot(last.msg.vote)))
    /\ [][\A k \in DOMAIN BALLOT :
             /\ k \in DOMAIN BALLOT'
             /\ BALLOT'[k] # BALLOT[k]
                => /\ last'.msg.type = "Vote"
                   /\ last'.result.kind = "Ok"
                   /\ k = <<last'.sender, last'.msg.poll_id>>]_vars

BallotsNeverRemovedWitness ==
    /\ LastIs("CreatePoll")
    /\ last.result.kind = "Ok"
    /\ last.msg.poll_id \in DOMAIN pre.POLL
    /\ \E voter \in Addrs :
          /\ <<voter, last.msg.poll_id>> \in DOMAIN pre.BALLOT
          /\ <<voter, last.msg.poll_id>> \in DOMAIN BALLOT
          /\ BALLOT[<<voter, last.msg.poll_id>>]
                = pre.BALLOT[<<voter, last.msg.poll_id>>]

\* C16: in every reachable state the option of every stored ballot is a
\* label of the option list of the poll stored under the ballot's poll_id,
\* so the lookup of the previous vote's position never faults on a re-vote.
BallotLabelInPoll ==
    \A k \in DOMAIN BALLOT :
          /\ k[2] \in DOMAIN POLL
          /\ FirstIndex(POLL[k[2]].options, BALLOT[k].option) # 0

\* C17: no Vote decrements a count that is 0: in every reachable state, for
\* every stored ballot, the count at the first position of its poll that
\* carries the ballot's label is at least 1, so the subtraction of a
\* re-vote neither wraps to 2^64-1 nor aborts.
BallotCountedAtLeastOnce ==
    /\ \A k \in DOMAIN BALLOT :
          (/\ k[2] \in DOMAIN POLL
           /\ FirstIndex(POLL[k[2]].options, BALLOT[k].option) # 0)
          => POLL[k[2]].options[FirstIndex(POLL[k[2]].options,
                                           BALLOT[k].option)][2] # 0
    \* no arithmetic step of a Vote has overflowed
    /\ overflow_checks = None

\* the labels of an option list, in order
LabelsOf(options) == [i \in 1..Len(options) |-> options[i][1]]

\* C18: a successful Vote{poll_id: p} by caller v changes only the counts
\* of poll p and the ballot (v, p): poll p keeps its admin, its question
\* and its sequence of labels (same length, same order), every poll with
\* another id, every ballot of another voter or of another poll, and Config
\* are unchanged.
VoteFrame ==
    (LastIs("Vote") /\ last.result.kind = "Ok")
    => /\ CONFIG = pre.CONFIG
       /\ DOMAIN POLL = DOMAIN pre.POLL
       /\ \A q \in PollIds \ {last.msg.poll_id} :
             may_load(POLL, q) = may_load(pre.POLL, q)
       /\ LET after == may_load(POLL, last.msg.poll_id)
          IN  /\ IsSome(after)
              /\ unwrap(after).admin = PrePoll.admin
              /\ unwrap(after).question = PrePoll.question
              /\ LabelsOf(unwrap(after).options) = LabelsOf(PrePoll.options)
       /\ \A k \in (Addrs \X PollIds) \ {LastKey} :
             may_load(BALLOT, k) = may_load(pre.BALLOT, k)

VoteFrameWitness ==
    /\ LastIs("Vote")
    /\ last.result.kind = "Ok"
    /\ DOMAIN pre.POLL = PollIds
    /\ POLL # pre.POLL
    /\ BALLOT # pre.BALLOT
    /\ \E k \in DOMAIN pre.BALLOT : k # LastKey /\ k[2] = last.msg.poll_id
    /\ PrePoll.admin # last.sender

\* C19: referential integrity and size bound of the store: in every
\* reachable state the poll_id of every stored ballot is the id of a stored
\* poll, and every stored poll has at most 10 options.
StoreIntegrity ==
    /\ \A k \in DOMAIN BALLOT : k[2] \in DOMAIN POLL
    /\ \A p \in DOMAIN POLL : Len(POLL[p].options) <= 10

StoreIntegrityWitness ==
    /\ \E k \in DOMAIN BALLOT :
          /\ k[2] \in DOMAIN POLL
          /\ Len(POLL[k[2]].options) = 10
    /\ LastIs("Vote")
    /\ last.result.kind = "Err"
    /\ last.msg.poll_id \notin DOMAIN POLL

====
